---- MODULE Spec2Model ----
(***************************************************************************)
(* Model of src/extract.rs: decoding of the MM base-modification tag of a  *)
(* BAM record (BaseMods::new), the strand projection of the decoded        *)
(* offsets (positions_on_complimented_sequence), merge_two_lists, the      *)
(* per-record pipeline (extract_from_record) and the chunked parallel      *)
(* driver (extract_contained).                                             *)
(*                                                                         *)
(* Texts are sequences of one-character strings.  Sequence indices of the  *)
(* program are zero-based; TLA+ sequences are one-based, so the program's  *)
(* index i is element i + 1 here.                                          *)
(***************************************************************************)
EXTENDS Integers, Sequences, FiniteSets

\* ------------------------------------------------------------------ bounds

\* longest enumerated read sequence
MaxSeqLen == 3
\* longest enumerated distance list of a generated MM tag
MaxDists == 2
\* largest enumerated distance of a generated MM tag
MaxDist == 2
\* longest enumerated free text following the group header of a raw MM tag
MaxRawSuffix == 3
\* longest enumerated list given to merge_two_lists / strand projection
MaxListLen == 3
\* largest enumerated element given to merge_two_lists
MaxElem == 2
\* longest enumerated short record stream of the batch driver
MaxShortStream == 3
\* number of worker threads of the pool
NumWorkers == 2

\* ------------------------------------------------------- character classes

\* [ACGTUN] of MM_RE
BaseChars == {"A", "C", "G", "T", "U", "N"}

\* [-+] of MM_RE
StrandChars == {"-", "+"}

\* [a-z] of MM_RE
LowerChars ==
    {"a", "b", "c", "d", "e", "f", "g", "h", "i", "j", "k", "l", "m",
     "n", "o", "p", "q", "r", "s", "t", "u", "v", "w", "x", "y", "z"}

\* [0-9] of MM_RE
DigitChars == {"0", "1", "2", "3", "4", "5", "6", "7", "8", "9"}

\* [.?] of MM_RE
MarkerChars == {".", "?"}

\* variant: a distance token may hold letters, (,[0-9a-z]+)
DistTokenAny == DigitChars \cup LowerChars

\* the class of one distance token in (,[0-9]+) of MM_RE
DistTokenChars == DigitChars

\* char::is_whitespace, restricted to the ASCII characters
WhiteChars == {" ", "\t", "\n", "\r"}

\* value of a decimal digit
DigitVal(c) ==
    CASE c = "0" -> 0 [] c = "1" -> 1 [] c = "2" -> 2 [] c = "3" -> 3
      [] c = "4" -> 4 [] c = "5" -> 5 [] c = "6" -> 6 [] c = "7" -> 7
      [] c = "8" -> 8 [] c = "9" -> 9

\* ----------------------------------------------------------------- MM_RE
\* ((([ACGTUN])([-+])([a-z]+|[0-9]+))[.?]?((,[0-9]+)*;)*)
\* leftmost-first matching as in the regex crate.  Everything after group 2
\* can match the empty text, so no greedy choice is ever given back.

\* index of the last character of the longest run of characters of class S
\* that starts at index i (i - 1 when the run is empty)
RunEnd(t, i, S) ==
    CHOOSE j \in (i - 1)..Len(t) :
        /\ \A k \in i..j : t[k] \in S
        /\ (j = Len(t) \/ t[j + 1] \notin S)

\* (,[0-9]+)* from index p: index of its last character (p - 1 when empty)
RECURSIVE CommaRunEnd(_, _)
CommaRunEnd(t, p) ==
    IF p + 1 <= Len(t) /\ t[p] = "," /\ t[p + 1] \in DistTokenChars
    THEN CommaRunEnd(t, RunEnd(t, p + 1, DistTokenChars) + 1)
    ELSE p - 1

\* ((,[0-9]+)*;)* from index p; g6 is the text of the last iteration, the
\* value a repeated capture group keeps (has6 = FALSE: no iteration)
RECURSIVE DistRuns(_, _, _, _)
DistRuns(t, p, has6, g6) ==
    LET e == CommaRunEnd(t, p) IN
    IF e + 1 <= Len(t) /\ t[e + 1] = ";"
    THEN DistRuns(t, e + 2, TRUE, SubSeq(t, p, e + 1))
    ELSE [end |-> p - 1, has6 |-> has6, g6 |-> g6]

\* one attempt to match MM_RE with the match starting at index i
MatchAt(t, i) ==
    IF /\ i + 2 <= Len(t)
       /\ t[i] \in BaseChars
       /\ t[i + 1] \in StrandChars
       /\ t[i + 2] \in LowerChars \cup DigitChars
    THEN LET cls   == IF t[i + 2] \in LowerChars THEN LowerChars ELSE DigitChars
             e5    == RunEnd(t, i + 2, cls)
             em    == IF e5 + 1 <= Len(t) /\ t[e5 + 1] \in MarkerChars
                      THEN e5 + 1 ELSE e5
             runs  == DistRuns(t, em + 1, FALSE, <<>>)
         IN  [ok |-> TRUE, end |-> runs.end,
              g3 |-> t[i], g4 |-> <<t[i + 1]>>, g5 |-> SubSeq(t, i + 2, e5),
              has6 |-> runs.has6, g6 |-> runs.g6]
    ELSE [ok |-> FALSE, end |-> i - 1,
          g3 |-> "", g4 |-> <<>>, g5 |-> <<>>, has6 |-> FALSE, g6 |-> <<>>]

\* MM_RE.captures_iter(mm_text): the successive non-overlapping matches,
\* searched from index i on
RECURSIVE CapturesIter(_, _)
CapturesIter(t, i) ==
    IF i > Len(t) THEN <<>>
    ELSE LET m == MatchAt(t, i) IN
         IF m.ok THEN <<m>> \o CapturesIter(t, m.end + 1)
         ELSE CapturesIter(t, i + 1)

\* ------------------------------------------------- distance list parsing

\* str::trim_end_matches(';')
RECURSIVE TrimEndMatches(_, _)
TrimEndMatches(s, c) ==
    IF s # <<>> /\ s[Len(s)] = c
    THEN TrimEndMatches(SubSeq(s, 1, Len(s) - 1), c)
    ELSE s

\* str::split(','): the pieces between the separators, empty ones included
RECURSIVE Split(_, _)
Split(s, c) ==
    IF \A k \in 1..Len(s) : s[k] # c THEN <<s>>
    ELSE LET k == CHOOSE k \in 1..Len(s) :
                      s[k] = c /\ \A j \in 1..(k - 1) : s[j] # c
         IN  <<SubSeq(s, 1, k - 1)>> \o Split(SubSeq(s, k + 1, Len(s)), c)

\* str::trim
RECURSIVE Trim(_)
Trim(s) ==
    IF s # <<>> /\ s[1] \in WhiteChars THEN Trim(Tail(s))
    ELSE IF s # <<>> /\ s[Len(s)] \in WhiteChars
         THEN Trim(SubSeq(s, 1, Len(s) - 1))
         ELSE s

\* the decimal digits of i64::MAX = 9223372036854775807
I64MaxDigits ==
    <<9, 2, 2, 3, 3, 7, 2, 0, 3, 6, 8, 5, 4, 7, 7, 5, 8, 0, 7>>

RECURSIVE StripZeros(_)
StripZeros(s) ==
    IF s # <<>> /\ s[1] = "0" THEN StripZeros(Tail(s)) ELSE s

\* whether the digit string s denotes a number above i64::MAX
ExceedsI64(s) ==
    LET z == StripZeros(s) IN
    \/ Len(z) > Len(I64MaxDigits)
    \/ /\ Len(z) = Len(I64MaxDigits)
       /\ \E k \in 1..Len(z) :
            /\ DigitVal(z[k]) > I64MaxDigits[k]
            /\ \A j \in 1..(k - 1) : DigitVal(z[j]) = I64MaxDigits[j]

RECURSIVE DecimalValue(_)
DecimalValue(s) ==
    IF s = <<>> THEN 0
    ELSE 10 * DecimalValue(SubSeq(s, 1, Len(s) - 1)) + DigitVal(s[Len(s)])

\* the decimal digits of -(i64::MIN) = 9223372036854775808
I64MinDigits ==
    <<"9", "2", "2", "3", "3", "7", "2", "0", "3", "6",
      "8", "5", "4", "7", "7", "5", "8", "0", "8">>

\* <i64 as FromStr>::from_str: an optional sign and then decimal digits; Err on
\* an empty text, on a sign alone, on a character that is no digit and on a
\* value outside i64
ParseI64(s) ==
    LET signed == s # <<>> /\ s[1] \in {"+", "-"}
        digits == IF signed THEN Tail(s) ELSE s
        neg    == signed /\ s[1] = "-"
    IN  IF digits = <<>> \/ \E k \in 1..Len(digits) : digits[k] \notin DigitChars
        THEN [ok |-> FALSE, val |-> 0]
        ELSE IF ExceedsI64(digits) /\ ~(neg /\ StripZeros(digits) = I64MinDigits)
        THEN [ok |-> FALSE, val |-> 0]
        ELSE [ok |-> TRUE,
              val |-> IF neg THEN 0 - DecimalValue(digits) ELSE DecimalValue(digits)]

\* the tokens handed to parse(): trim_end_matches, split, trim, filter
RECURSIVE KeepTokens(_)
KeepTokens(pieces) ==
    IF pieces = <<>> THEN <<>>
    ELSE LET tok == Trim(Head(pieces)) IN
         IF tok = <<>> THEN KeepTokens(Tail(pieces))
         ELSE <<tok>> \o KeepTokens(Tail(pieces))

DistTokens(mod_dists_str) ==
    KeepTokens(Split(TrimEndMatches(mod_dists_str, ";"), ","))

\* mod_dists: ok = FALSE when some parse().unwrap() panics
ModDists(mod_dists_str) ==
    LET toks == DistTokens(mod_dists_str) IN
    IF \E k \in 1..Len(toks) : ~ParseI64(toks[k]).ok
    THEN [ok |-> FALSE, dists |-> <<>>]
    ELSE [ok |-> TRUE, dists |-> [k \in 1..Len(toks) |-> ParseI64(toks[k]).val]]

\* ------------------------------------------------------------- the record
\* A bam::Record as far as extract.rs reads it:
\*   seq         the stored bases (record.seq().as_bytes())
\*   is_reverse  the strand flag
\*   is_unmapped the unmapped flag
\*   mm          the MM aux field: is_string = FALSE stands for a record whose
\*               aux(b"MM") is an Err or a value that is no Aux::String
\*   block       the aligned block of the CIGAR: read offsets qs..qe-1 lie on
\*               the reference positions rs..rs+(qe-qs)-1

\* record.seq_len()
SeqLen(record) == Len(record.seq)

\* complement of one base (bio::alphabets::dna::complement)
Complement(b) ==
    CASE b = "A" -> "T" [] b = "T" -> "A" [] b = "C" -> "G" [] b = "G" -> "C"
      [] OTHER -> b

\* bio::alphabets::dna::revcomp
RevComp(s) == [k \in 1..Len(s) |-> Complement(s[Len(s) + 1 - k])]

\* forward_bases
ForwardBases(record) ==
    IF record.is_reverse THEN RevComp(record.seq) ELSE record.seq

\* ------------------------------------------------- position resolution

\* variant: cur_seq_idx is not advanced when an offset is recorded
ScanStepNoAdvance(forward_bases, mod_base, mod_dists, st) ==
    LET cur_base == forward_bases[st.cur_seq_idx + 1] IN
    IF cur_base = mod_base
       /\ st.dist_from_last_mod_base = mod_dists[st.cur_mod_idx + 1]
    THEN [cur_mod_idx |-> st.cur_mod_idx + 1,
          cur_seq_idx |-> st.cur_seq_idx,
          dist_from_last_mod_base |-> 0,
          modified_positions |->
              [st.modified_positions EXCEPT ![st.cur_mod_idx + 1] = st.cur_seq_idx]]
    ELSE IF cur_base = mod_base
    THEN [st EXCEPT !.dist_from_last_mod_base = @ + 1, !.cur_seq_idx = @ + 1]
    ELSE [st EXCEPT !.cur_seq_idx = @ + 1]

\* variant: dist_from_last_mod_base is not reset when an offset is recorded
ScanStepNoReset(forward_bases, mod_base, mod_dists, st) ==
    LET cur_base == forward_bases[st.cur_seq_idx + 1] IN
    IF cur_base = mod_base
       /\ st.dist_from_last_mod_base = mod_dists[st.cur_mod_idx + 1]
    THEN [cur_mod_idx |-> st.cur_mod_idx + 1,
          cur_seq_idx |-> st.cur_seq_idx + 1,
          dist_from_last_mod_base |-> st.dist_from_last_mod_base,
          modified_positions |->
              [st.modified_positions EXCEPT ![st.cur_mod_idx + 1] = st.cur_seq_idx]]
    ELSE IF cur_base = mod_base
    THEN [st EXCEPT !.dist_from_last_mod_base = @ + 1, !.cur_seq_idx = @ + 1]
    ELSE [st EXCEPT !.cur_seq_idx = @ + 1]

\* one iteration of the while loop; st is the loop state
\* [cur_mod_idx, cur_seq_idx, dist_from_last_mod_base, modified_positions]
ScanStep(forward_bases, mod_base, mod_dists, st) ==
    LET cur_base == forward_bases[st.cur_seq_idx + 1] IN
    IF cur_base = mod_base
       /\ st.dist_from_last_mod_base = mod_dists[st.cur_mod_idx + 1]
    THEN [cur_mod_idx |-> st.cur_mod_idx + 1,
          cur_seq_idx |-> st.cur_seq_idx + 1,
          dist_from_last_mod_base |-> 0,
          modified_positions |->
              [st.modified_positions EXCEPT ![st.cur_mod_idx + 1] = st.cur_seq_idx]]
    ELSE IF cur_base = mod_base
    THEN [st EXCEPT !.dist_from_last_mod_base = @ + 1, !.cur_seq_idx = @ + 1]
    ELSE [st EXCEPT !.cur_seq_idx = @ + 1]

\* the while loop
RECURSIVE Scan(_, _, _, _)
Scan(forward_bases, mod_base, mod_dists, st) ==
    IF st.cur_seq_idx < Len(forward_bases) /\ st.cur_mod_idx < Len(mod_dists)
    THEN Scan(forward_bases, mod_base, mod_dists,
              ScanStep(forward_bases, mod_base, mod_dists, st))
    ELSE st

\* the loop from its initial state; modified_positions = vec![0; len]
FindPositions(forward_bases, mod_base, mod_dists) ==
    Scan(forward_bases, mod_base, mod_dists,
         [cur_mod_idx |-> 0, cur_seq_idx |-> 0, dist_from_last_mod_base |-> 0,
          modified_positions |-> [k \in 1..Len(mod_dists) |-> 0]])

\* variant: the assertion is left out
AssertSkipped(cur_mod_idx, len) == TRUE

\* assert_eq!(cur_mod_idx, mod_dists.len()): TRUE when it passes
AssertEq(cur_mod_idx, len) == cur_mod_idx = len

\* -------------------------------------------------- strand projection

\* Iterator::rev
Reversed(s) == [k \in 1..Len(s) |-> s[Len(s) + 1 - k]]

\* variant: the offsets are mapped without .rev()
PositionsForwardOrder(record, input_positions) ==
    IF record.is_reverse
    THEN [k \in 1..Len(input_positions) |-> SeqLen(record) - input_positions[k]]
    ELSE input_positions

\* positions_on_complimented_sequence
PositionsOnComplimentedSequence(record, input_positions) ==
    IF record.is_reverse
    THEN LET rev == Reversed(input_positions)
         IN  [k \in 1..Len(rev) |-> SeqLen(record) - rev[k]]
    ELSE input_positions

\* ------------------------------------------------------------ liftover

\* liftover_exact (super): the reference coordinate of every offset that
\* lies on an aligned base, -1 for an offset that does not
LiftoverExact(record, positions) ==
    [k \in 1..Len(positions) |->
        IF record.block.qs <= positions[k] /\ positions[k] < record.block.qe
        THEN record.block.rs + (positions[k] - record.block.qs)
        ELSE -1]

\* add_reference_positions
AddReferencePositions(mods, record) ==
    [mods EXCEPT !.modified_reference_positions =
        LiftoverExact(record,
            PositionsOnComplimentedSequence(record, mods.modified_positions))]

\* ------------------------------------------------------- BaseMods::new

\* the body of the loop over the captures, from the captures still to
\* come and the groups pushed so far.  panic names the unwrap or assertion
\* that unwound the call ("none": the call returns rtn), lifted the number of
\* liftover_exact calls made
RECURSIVE DecodeCaptures(_, _, _)
DecodeCaptures(record, caps, rtn) ==
    IF caps = <<>> THEN [panic |-> "none", rtn |-> rtn, lifted |-> Len(rtn)]
    ELSE
      LET cap           == Head(caps)
          mod_base      == cap.g3
          mod_dists_str == IF cap.has6 THEN cap.g6 ELSE <<>>
          parsed        == ModDists(mod_dists_str)
          forward_bases == ForwardBases(record)
          st            == FindPositions(forward_bases, mod_base, parsed.dists)
          mods          == [modified_base |-> mod_base,
                            strand |-> cap.g4[1],
                            modification_type |-> cap.g5[1],
                            modified_positions |-> st.modified_positions,
                            modified_reference_positions |-> <<>>]
      IN  IF ~parsed.ok THEN [panic |-> "parse", rtn |-> <<>>, lifted |-> Len(rtn)]
          ELSE IF ~AssertEq(st.cur_mod_idx, Len(parsed.dists))
          THEN [panic |-> "assert", rtn |-> <<>>, lifted |-> Len(rtn)]
          ELSE DecodeCaptures(record, Tail(caps),
                              Append(rtn, AddReferencePositions(mods, record)))

BaseModsNew(record) ==
    IF record.mm.is_string
    THEN DecodeCaptures(record, CapturesIter(record.mm.text, 1), <<>>)
    ELSE [panic |-> "none", rtn |-> <<>>, lifted |-> 0]

\* ----------------------------------------------------- merge_two_lists

\* slice::sort: a stable sort of the elements by Ord
RECURSIVE InsertSorted(_, _)
InsertSorted(sorted, x) ==
    IF sorted = <<>> THEN <<x>>
    ELSE IF x < Head(sorted) THEN <<x>> \o sorted
    ELSE <<Head(sorted)>> \o InsertSorted(Tail(sorted), x)

RECURSIVE Sort(_)
Sort(x) ==
    IF x = <<>> THEN <<>>
    ELSE InsertSorted(Sort(SubSeq(x, 1, Len(x) - 1)), x[Len(x)])

\* variant: x.sort() is left out
MergeNoSort(lft, rgt) == lft \o rgt

\* merge_two_lists
MergeTwoLists(lft, rgt) == Sort(lft \o rgt)

\* ----------------------------------------------- extract_from_record

\* variant: the loop runs to the last group
ReturnedLast(mods) == Len(mods)

\* the group whose reference positions the loop returns: the loop returns in
\* its first iteration when the condition holds, and the condition does not
\* depend on the group
ReturnedGroup(mods) == 1

\* reference && !record.is_unmapped()
ReturnCondition(record, reference) == reference /\ ~record.is_unmapped

\* extract_from_record; get_u32_tag(record, b"nl") is evaluated and dropped
ExtractFromRecord(record, reference) ==
    LET new == BaseModsNew(record) IN
    IF new.panic # "none"
    THEN [panic |-> new.panic, pos |-> <<>>, lifted |-> new.lifted]
    ELSE IF new.rtn # <<>> /\ ReturnCondition(record, reference)
    THEN [panic |-> "none", lifted |-> new.lifted,
          pos |-> new.rtn[ReturnedGroup(new.rtn)].modified_reference_positions]
    ELSE [panic |-> "none", pos |-> <<>>, lifted |-> new.lifted]

\* ------------------------------------------------------ enumerated inputs

\* all sequences over S of length 0..n
SeqsUpTo(S, n) == UNION {[1..k -> S] : k \in 0..n}

DigitChar(d) == CHOOSE c \in DigitChars : DigitVal(c) = d

RECURSIVE DistText(_)
DistText(dists) ==
    IF dists = <<>> THEN <<>>
    ELSE <<",", DigitChar(Head(dists))>> \o DistText(Tail(dists))

\* the MM text of one group: base, strand +, modification code, distances
GroupText(base, code, dists) == <<base, "+", code>> \o DistText(dists) \o <<";">>

SeqChars == {"A", "T"}

ReadSeqs == SeqsUpTo(SeqChars, MaxSeqLen)

DistLists == SeqsUpTo(0..MaxDist, MaxDists)

OneGroupTags == {GroupText(b, "a", d) : b \in SeqChars, d \in DistLists}

TwoGroupTags ==
    {GroupText(b, "a", d) \o GroupText(c, "m", e) :
        b \in SeqChars, d \in SeqsUpTo(0..MaxDist, 1),
        c \in SeqChars, e \in {<<>>, <<0>>}}

\* texts that start as a group and go on freely
RawChars == {"1", ",", ";", "x", "?"}

RawTags == {<<"A", "+", "a">> \o s : s \in SeqsUpTo(RawChars, MaxRawSuffix)}

\* "AACGATAACGAAACGATAACGA" with MM "A+a,5,2;"
ExampleSeq ==
    <<"A", "A", "C", "G", "A", "T", "A", "A", "C", "G", "A",
      "A", "A", "C", "G", "A", "T", "A", "A", "C", "G", "A">>

ExampleTag == GroupText("A", "a", <<5, 2>>)

\* a distance of twenty digits, above i64::MAX
OverflowTag == <<"A", "+", "a", ",">> \o [k \in 1..20 |-> "9"] \o <<";">>

\* a numeric modification code with a marker, and a group with two runs
MarkerTag == <<"A", "-", "1", "7", "?", ",", "0", ";", "T", "+", "m", ".", ",", "1", ";">>

TwoRunTag == <<"A", "+", "a", ",", "1", ";", ",", "0", ";">>

SampleTags == {ExampleTag, OverflowTag, MarkerTag, TwoRunTag}

StringTag(text) == [is_string |-> TRUE, text |-> text]

NoTag == [is_string |-> FALSE, text |-> <<>>]

\* a record whose first base is clipped and whose other bases are aligned
\* from reference position 100 on
MkRecord(seq, is_reverse, is_unmapped, mm) ==
    [seq |-> seq, is_reverse |-> is_reverse, is_unmapped |-> is_unmapped, mm |-> mm,
     block |-> [qs |-> 1, qe |-> Len(seq), rs |-> 100]]

GroupTags == OneGroupTags \cup TwoGroupTags \cup SampleTags

\* the records given to BaseMods::new
NewRecords ==
    {MkRecord(q, rv, FALSE, mm) :
        q \in ReadSeqs \cup {ExampleSeq}, rv \in BOOLEAN,
        mm \in {StringTag(t) : t \in GroupTags \cup RawTags} \cup {NoTag}}

\* the records given to extract_from_record
ExtractRecords ==
    {MkRecord(q, rv, um, mm) :
        q \in ReadSeqs \cup {ExampleSeq}, rv \in BOOLEAN, um \in BOOLEAN,
        mm \in {StringTag(t) : t \in GroupTags} \cup {NoTag}}

\* the records and offsets given to positions_on_complimented_sequence
ProjectRecords ==
    {MkRecord(q, rv, FALSE, NoTag) :
        q \in ReadSeqs \cup {ExampleSeq, SubSeq(ExampleSeq, 1, 20)}, rv \in BOOLEAN}

ProjectPositions == SeqsUpTo((0..MaxElem) \cup {3, 7}, MaxListLen)

\* the lists given to merge_two_lists
MergeLists == SeqsUpTo(0..MaxElem, MaxListLen)

\* ------------------------------------------------------------------ state

VARIABLES
    call,             \* the function a behaviour calls
    returned,         \* whether the call has returned or unwound
    record,           \* argument record
    reference,        \* argument reference
    input_positions,  \* argument input_positions
    left,             \* argument left
    right,            \* argument right
    rtn,              \* what BaseMods::new returned, or its panic
    extracted,        \* what extract_from_record returned, or its panic
    positions,        \* what positions_on_complimented_sequence returned
    merged            \* what merge_two_lists returned

fnvars ==
    <<call, returned, record, reference, input_positions, left, right,
      rtn, extracted, positions, merged>>

NoRecord == MkRecord(<<>>, FALSE, FALSE, NoTag)

NoResult == [panic |-> "none", rtn |-> <<>>, lifted |-> 0]

NoExtract == [panic |-> "none", pos |-> <<>>, lifted |-> 0]

InitCalls ==
    /\ returned = FALSE
    /\ rtn = NoResult
    /\ extracted = NoExtract
    /\ positions = <<>>
    /\ merged = <<>>
    /\ \/ /\ call = "new"
          /\ record \in NewRecords
          /\ reference = FALSE
          /\ input_positions = <<>> /\ left = <<>> /\ right = <<>>
       \/ /\ call = "extract_from_record"
          /\ record \in ExtractRecords
          /\ reference \in BOOLEAN
          /\ input_positions = <<>> /\ left = <<>> /\ right = <<>>
       \/ /\ call = "positions_on_complimented_sequence"
          /\ record \in ProjectRecords
          /\ input_positions \in ProjectPositions
          /\ reference = FALSE /\ left = <<>> /\ right = <<>>
       \/ /\ call = "merge_two_lists"
          /\ left \in MergeLists
          /\ right \in MergeLists
          /\ record = NoRecord /\ reference = FALSE /\ input_positions = <<>>

\* BaseMods::new(record)
New ==
    /\ call = "new" /\ ~returned
    /\ rtn' = BaseModsNew(record)
    /\ returned' = TRUE
    /\ UNCHANGED <<call, record, reference, input_positions, left, right,
                   extracted, positions, merged>>

\* extract_from_record(record, reference)
ExtractFromRecordCall ==
    /\ call = "extract_from_record" /\ ~returned
    /\ extracted' = ExtractFromRecord(record, reference)
    /\ returned' = TRUE
    /\ UNCHANGED <<call, record, reference, input_positions, left, right,
                   rtn, positions, merged>>

\* positions_on_complimented_sequence(record, input_positions)
PositionsCall ==
    /\ call = "positions_on_complimented_sequence" /\ ~returned
    /\ positions' = PositionsOnComplimentedSequence(record, input_positions)
    /\ returned' = TRUE
    /\ UNCHANGED <<call, record, reference, input_positions, left, right,
                   rtn, extracted, merged>>

\* merge_two_lists(left, right)
MergeCall ==
    /\ call = "merge_two_lists" /\ ~returned
    /\ merged' = MergeTwoLists(left, right)
    /\ returned' = TRUE
    /\ UNCHANGED <<call, record, reference, input_positions, left, right,
                   rtn, extracted, positions>>

\* ---------------------------------------------------- extract_contained

\* bin_size
bin_size == 10000

\* The stream of bam.records() holds the same record at every place but one
\* (special_at; 0: at no place), so a vector of records is given by how many
\* records of each kind it holds.  par_iter().map().collect() reads the order
\* of the vector only to order its results, and the results are dropped.
Kinds == {"fill", "special"}

EmptyVec == [k \in Kinds |-> 0]

VecLen(vec) == vec["fill"] + vec["special"]

Push(vec, k) == [vec EXCEPT ![k] = @ + 1]

Take(vec, k) == [vec EXCEPT ![k] = @ - 1]

OkItem(rec) == [is_err |-> FALSE, record |-> rec]

\* an Err(..) item of bam.records()
ErrItem == [is_err |-> TRUE, record |-> NoRecord]

\* a record that decodes: two A, distances 0,0
FillRecord ==
    MkRecord(<<"A", "T", "A">>, FALSE, FALSE, StringTag(GroupText("A", "a", <<0, 0>>)))

\* distances 1,0 need three A, the sequence holds one
ShortSeqRecord ==
    MkRecord(<<"A", "T">>, FALSE, FALSE, StringTag(GroupText("A", "a", <<1, 0>>)))

\* MM "A+a,x;"
NonNumericRecord ==
    MkRecord(<<"A", "T">>, FALSE, FALSE, StringTag(<<"A", "+", "a", ",", "x", ";">>))

OverflowRecord == MkRecord(<<"A", "T">>, FALSE, FALSE, StringTag(OverflowTag))

\* two groups on a reverse-strand record
TwoGroupRecord ==
    MkRecord(<<"A", "T", "T">>, TRUE, FALSE,
             StringTag(GroupText("A", "a", <<1>>) \o GroupText("T", "m", <<0>>)))

UnmappedNoTagRecord == MkRecord(<<"A">>, FALSE, TRUE, NoTag)

SpecialItems ==
    {ErrItem} \cup
    {OkItem(r) : r \in {ShortSeqRecord, NonNumericRecord, OverflowRecord,
                        TwoGroupRecord, UnmappedNoTagRecord}}

\* the streams: every short one, the ones of one full chunk and of one full
\* chunk and a record without a special item, and the ones of one full chunk
\* and a record whose special item ends the first chunk or is the second
Streams ==
    {[len |-> n, special_at |-> 0, special |-> OkItem(FillRecord)] :
        n \in (0..MaxShortStream) \cup {bin_size, bin_size + 1}}
    \cup
    {[len |-> n, special_at |-> a, special |-> x] :
        n \in 1..MaxShortStream, a \in 1..MaxShortStream, x \in SpecialItems}
    \cup
    {[len |-> bin_size + 1, special_at |-> a, special |-> x] :
        a \in {bin_size, bin_size + 1},
        x \in {ErrItem, OkItem(ShortSeqRecord), OkItem(TwoGroupRecord)}}

VARIABLES
    bam,              \* the stream read by bam.records()
    bam_pos,          \* the number of items bam.records() has yielded
    pc,               \* where extract_contained is
    cur_count,        \* cur_count
    cur_vec,          \* cur_vec
    pending,          \* records of the running par_iter no worker has taken
    running,          \* records of the running par_iter a worker is mapping
    task_panicked,    \* whether a map closure of the running par_iter panicked
    flushes,          \* history: the length of cur_vec at every par_iter
    runs,             \* history: extract_from_record calls ended, per kind
    liftover_calls,   \* history: liftover_exact calls made
    n_results         \* history: results collected into _pos

batchvars ==
    <<bam, bam_pos, pc, cur_count, cur_vec, pending, running, task_panicked,
      flushes, runs, liftover_calls, n_results>>

vars == <<fnvars, batchvars>>

\* the kind and the item at place i (1-based) of the stream
KindAt(i) == IF i = bam.special_at THEN "special" ELSE "fill"

ItemAt(i) == IF i = bam.special_at THEN bam.special ELSE OkItem(FillRecord)

KindRecord(k) == IF k = "special" THEN bam.special.record ELSE FillRecord

BatchIdle ==
    /\ bam = [len |-> 0, special_at |-> 0, special |-> OkItem(FillRecord)]
    /\ bam_pos = 0
    /\ pc = "idle"
    /\ cur_count = 0
    /\ cur_vec = EmptyVec
    /\ pending = EmptyVec
    /\ running = EmptyVec
    /\ task_panicked = FALSE
    /\ flushes = <<>>
    /\ runs = EmptyVec
    /\ liftover_calls = 0
    /\ n_results = 0

\* extract_contained(bam, reference) entered: cur_count = 0, cur_vec = vec![]
InitBatch ==
    /\ bam \in {b \in Streams : b.special_at <= b.len}
    /\ reference \in BOOLEAN
    /\ bam_pos = 0
    /\ pc = "for"
    /\ cur_count = 0
    /\ cur_vec = EmptyVec
    /\ pending = EmptyVec
    /\ running = EmptyVec
    /\ task_panicked = FALSE
    /\ flushes = <<>>
    /\ runs = EmptyVec
    /\ liftover_calls = 0
    /\ n_results = 0
    /\ call = "extract_contained"
    /\ returned = FALSE
    /\ record = NoRecord
    /\ input_positions = <<>> /\ left = <<>> /\ right = <<>>
    /\ rtn = NoResult /\ extracted = NoExtract
    /\ positions = <<>> /\ merged = <<>>

\* variant: the comparison is one record late
ChunkFullOffByOne(count) == count = bin_size + 1

\* if cur_count == bin_size
ChunkFull(count) == count = bin_size

\* one iteration of the for loop on an Ok item, up to the par_iter it starts
ReadRecord ==
    /\ pc = "for"
    /\ bam_pos < bam.len
    /\ ~ItemAt(bam_pos + 1).is_err
    /\ bam_pos' = bam_pos + 1
    /\ cur_vec' = Push(cur_vec, KindAt(bam_pos + 1))
    /\ cur_count' = cur_count + 1
    /\ IF ChunkFull(cur_count')
       THEN /\ pc' = "par_iter"
            /\ pending' = cur_vec'
            /\ flushes' = Append(flushes, VecLen(cur_vec'))
       ELSE UNCHANGED <<pc, pending, flushes>>
    /\ UNCHANGED <<bam, running, task_panicked, runs, liftover_calls, n_results,
                   fnvars>>

\* r.unwrap() on an Err item
ReadError ==
    /\ pc = "for"
    /\ bam_pos < bam.len
    /\ ItemAt(bam_pos + 1).is_err
    /\ bam_pos' = bam_pos + 1
    /\ pc' = "panicked"
    /\ returned' = TRUE
    /\ UNCHANGED <<bam, cur_count, cur_vec, pending, running, task_panicked,
                   flushes, runs, liftover_calls, n_results,
                   call, record, reference, input_positions, left, right,
                   rtn, extracted, positions, merged>>

\* the stream ends: the par_iter after the loop starts
EndOfStream ==
    /\ pc = "for"
    /\ bam_pos = bam.len
    /\ pc' = "par_iter_last"
    /\ pending' = cur_vec
    /\ flushes' = Append(flushes, VecLen(cur_vec))
    /\ UNCHANGED <<bam, bam_pos, cur_count, cur_vec, running, task_panicked,
                   runs, liftover_calls, n_results, fnvars>>

\* a worker of the pool takes a record of the running par_iter
TaskStart(k) ==
    /\ pc \in {"par_iter", "par_iter_last"}
    /\ pending[k] > 0
    /\ VecLen(running) < NumWorkers
    /\ pending' = Take(pending, k)
    /\ running' = Push(running, k)
    /\ UNCHANGED <<bam, bam_pos, pc, cur_count, cur_vec, task_panicked,
                   flushes, runs, liftover_calls, n_results, fnvars>>

\* the map closure of a taken record ends: extract_from_record(record, reference)
TaskEnd(k) ==
    /\ pc \in {"par_iter", "par_iter_last"}
    /\ running[k] > 0
    /\ LET r == ExtractFromRecord(KindRecord(k), reference) IN
        /\ running' = Take(running, k)
        /\ runs' = Push(runs, k)
        /\ liftover_calls' = liftover_calls + r.lifted
        /\ IF r.panic = "none"
           THEN /\ n_results' = n_results + 1
                /\ UNCHANGED task_panicked
           ELSE /\ task_panicked' = TRUE
                /\ UNCHANGED n_results
    /\ UNCHANGED <<bam, bam_pos, pc, cur_count, cur_vec, pending, flushes, fnvars>>

\* after a panic the pool may leave the records no worker has taken unmapped
TaskSkip ==
    /\ pc \in {"par_iter", "par_iter_last"}
    /\ task_panicked
    /\ VecLen(pending) > 0
    /\ pending' = EmptyVec
    /\ UNCHANGED <<bam, bam_pos, pc, cur_count, cur_vec, running, task_panicked,
                   flushes, runs, liftover_calls, n_results, fnvars>>

\* variant: collect() returns once every record is taken
JoinedEarly(pend, run) == VecLen(pend) = 0

\* whether collect() may return: every record taken and every closure ended
Joined(pend, run) == VecLen(pend) = 0 /\ VecLen(run) = 0

\* variant: cur_vec.clear() is left out
CollectChunkNoClear ==
    /\ pc = "par_iter"
    /\ Joined(pending, running)
    /\ ~task_panicked
    /\ cur_count' = 0
    /\ pc' = "for"
    /\ UNCHANGED <<bam, bam_pos, cur_vec, pending, running, task_panicked,
                   flushes, runs, liftover_calls, n_results, fnvars>>

\* collect() of the par_iter in the loop returns; cur_vec.clear(); cur_count = 0
CollectChunk ==
    /\ pc = "par_iter"
    /\ Joined(pending, running)
    /\ ~task_panicked
    /\ cur_vec' = EmptyVec
    /\ cur_count' = 0
    /\ pc' = "for"
    /\ UNCHANGED <<bam, bam_pos, pending, running, task_panicked,
                   flushes, runs, liftover_calls, n_results, fnvars>>

\* collect() of the par_iter after the loop returns; extract_contained returns
CollectLast ==
    /\ pc = "par_iter_last"
    /\ Joined(pending, running)
    /\ ~task_panicked
    /\ pc' = "done"
    /\ returned' = TRUE
    /\ UNCHANGED <<bam, bam_pos, cur_count, cur_vec, pending, running,
                   task_panicked, flushes, runs, liftover_calls, n_results,
                   call, record, reference, input_positions, left, right,
                   rtn, extracted, positions, merged>>

\* the panic of a map closure is resumed in the caller once the par_iter has
\* joined: extract_contained unwinds
Unwind ==
    /\ pc \in {"par_iter", "par_iter_last"}
    /\ Joined(pending, running)
    /\ task_panicked
    /\ pc' = "panicked"
    /\ returned' = TRUE
    /\ UNCHANGED <<bam, bam_pos, cur_count, cur_vec, pending, running,
                   task_panicked, flushes, runs, liftover_calls, n_results,
                   call, record, reference, input_positions, left, right,
                   rtn, extracted, positions, merged>>

\* ---------------------------------------------------------- specifications

Init == InitCalls /\ BatchIdle

Next ==
    \/ New /\ UNCHANGED batchvars
    \/ ExtractFromRecordCall /\ UNCHANGED batchvars
    \/ PositionsCall /\ UNCHANGED batchvars
    \/ MergeCall /\ UNCHANGED batchvars

Spec == Init /\ [][Next]_vars

NextBatch ==
    \/ ReadRecord
    \/ ReadError
    \/ EndOfStream
    \/ \E k \in Kinds : TaskStart(k)
    \/ \E k \in Kinds : TaskEnd(k)
    \/ TaskSkip
    \/ CollectChunk
    \/ CollectLast
    \/ Unwind

SpecBatch == InitBatch /\ [][NextBatch]_vars

\* ------------------------------------------------- properties: decoding

\* the one-based indices of the occurrences of base b in s
Occurrences(s, b) == {i \in 1..Len(s) : s[i] = b}

\* the zero-based index of the m-th occurrence of b in s (m >= 1)
NthOccurrence(s, b, m) ==
    (CHOOSE i \in Occurrences(s, b) :
        Cardinality({j \in Occurrences(s, b) : j <= i}) = m) - 1

RECURSIVE SumTo(_, _)
SumTo(d, k) == IF k = 0 THEN 0 ELSE d[k] + SumTo(d, k - 1)

\* the distance list of the g-th group of an MM text
GroupDists(text, g) ==
    LET cap == CapturesIter(text, 1)[g]
    IN  ModDists(IF cap.has6 THEN cap.g6 ELSE <<>>).dists

NewReturned == call = "new" /\ returned /\ rtn.panic = "none"

ExampleRecord == MkRecord(ExampleSeq, FALSE, FALSE, StringTag(ExampleTag))

\* C1: when BaseMods::new returns, the k-th resolved offset of every group is
\* the zero-based index of the (d_1 + ... + d_k + k)-th occurrence of the
\* group's base in the forward sequence; base A with distances [5,2] on
\* AACGATAACGAAACGATAACGA resolves to 10 and 15
C1_NthOccurrence ==
    NewReturned =>
        /\ \A g \in 1..Len(rtn.rtn) :
            LET d  == GroupDists(record.mm.text, g)
                fb == ForwardBases(record)
                b  == rtn.rtn[g].modified_base
            IN  \A k \in 1..Len(d) :
                    /\ Cardinality(Occurrences(fb, b)) >= SumTo(d, k) + k
                    /\ rtn.rtn[g].modified_positions[k]
                         = NthOccurrence(fb, b, SumTo(d, k) + k)
        /\ (record = ExampleRecord =>
                /\ Len(rtn.rtn) = 1
                /\ rtn.rtn[1].modified_positions = <<10, 15>>)

C1_Witness ==
    /\ NewReturned
    /\ record = ExampleRecord
    /\ rtn.rtn[1].modified_positions = <<10, 15>>

\* C2: when BaseMods::new returns, modified_positions of every group has as
\* many elements as the group has distances and is strictly increasing
C2_LengthAndIncreasing ==
    NewReturned =>
        \A g \in 1..Len(rtn.rtn) :
            LET mp == rtn.rtn[g].modified_positions IN
            /\ Len(mp) = Len(GroupDists(record.mm.text, g))
            /\ \A k \in 1..(Len(mp) - 1) : mp[k] < mp[k + 1]

C2_Witness ==
    /\ NewReturned
    /\ Len(rtn.rtn) >= 1
    /\ Len(rtn.rtn[1].modified_positions) >= 2
    /\ record.is_reverse

\* ---------------------------------------- properties: strand projection

\* C3: on a reverse-strand record of sequence length L the i-th output of
\* positions_on_complimented_sequence is L - p_{n-1-i} (zero-based i); on a
\* forward-strand record the output is the input; L = 20 with [3, 7] on a
\* reverse-strand record gives [13, 17]
C3_Projection ==
    (call = "positions_on_complimented_sequence" /\ returned) =>
        LET n == Len(input_positions)
            L == Len(record.seq)
        IN  /\ Len(positions) = n
            /\ record.is_reverse =>
                 \A i \in 1..n : positions[i] = L - input_positions[n + 1 - i]
            /\ ~record.is_reverse => positions = input_positions
            /\ (record.is_reverse /\ L = 20 /\ input_positions = <<3, 7>>)
                 => positions = <<13, 17>>

C3_Witness ==
    /\ call = "positions_on_complimented_sequence" /\ returned
    /\ record.is_reverse
    /\ Len(record.seq) = 20
    /\ input_positions = <<3, 7>>
    /\ positions = <<13, 17>>

\* ------------------------------------- properties: extract_from_record

ExtractReturned == call = "extract_from_record" /\ returned

\* the reference positions of the first group BaseMods::new decodes
FirstGroupReference(rec) ==
    LET first == BaseModsNew(rec).rtn[1]
    IN  LiftoverExact(rec,
            PositionsOnComplimentedSequence(rec, first.modified_positions))

\* whether the MM text of the record holds a group
HasGroup(rec) == rec.mm.is_string /\ CapturesIter(rec.mm.text, 1) # <<>>

\* C4 as claimed: for every record the result is the first group's
\* modified_reference_positions when reference is set, the record is mapped
\* and a group was decoded, and in every other case the result is empty and
\* no error is raised
C4_Original ==
    ExtractReturned =>
        IF reference /\ ~record.is_unmapped /\ HasGroup(record)
        THEN extracted.panic = "none" => extracted.pos = FirstGroupReference(record)
        ELSE extracted.panic = "none" /\ extracted.pos = <<>>

\* C4 as amended: a record whose decoding aborts raises the error whatever the
\* reference flag and the mapped flag are; for every record whose decoding
\* completes the result is the first group's modified_reference_positions
\* when reference is set, the record is mapped and a group was decoded, and
\* the empty sequence in every other case
C4_FirstGroupOnly ==
    ExtractReturned =>
        LET new == BaseModsNew(record) IN
        /\ extracted.panic = new.panic
        /\ new.panic = "none" =>
             IF reference /\ ~record.is_unmapped /\ HasGroup(record)
             THEN extracted.pos = FirstGroupReference(record)
             ELSE extracted.pos = <<>>

\* two groups with different reference positions, the first one returned
C4_Witness ==
    /\ ExtractReturned
    /\ extracted.panic = "none"
    /\ reference /\ ~record.is_unmapped
    /\ Len(BaseModsNew(record).rtn) = 2
    /\ BaseModsNew(record).rtn[2].modified_reference_positions # extracted.pos
    /\ extracted.pos = FirstGroupReference(record)
    /\ extracted.pos # <<>>

\* --------------------------------- properties: non-numeric distance token

\* whether the text holds a group header (base, strand, code character) whose
\* comma-separated list, up to the next ';', holds a token that is not a
\* decimal number
NonNumericDistance(t) ==
    \E i \in 1..Len(t), q \in 1..Len(t) :
        /\ i + 2 < q
        /\ t[i] \in BaseChars /\ t[i + 1] \in StrandChars
        /\ t[i + 2] \in LowerChars \cup DigitChars
        /\ t[q] = ";"
        /\ \A k \in i..(q - 1) : t[k] # ";"
        /\ \E c \in (i + 3)..(q - 1), e \in (i + 3)..q :
            /\ c < e
            /\ t[c] = ","
            /\ t[e] \in {",", ";"}
            /\ \A k \in (c + 1)..(e - 1) : t[k] # ","
            /\ \E k \in (c + 1)..(e - 1) : t[k] \notin DigitChars

\* whether the text holds a run of decimal digits as long as i64::MAX is
LongDigitRun(t) ==
    \E i \in 1..Len(t) :
        /\ i + Len(I64MaxDigits) - 1 <= Len(t)
        /\ \A k \in i..(i + Len(I64MaxDigits) - 1) : t[k] \in DigitChars

CountOf(s, x) == Cardinality({i \in 1..Len(s) : s[i] = x})

\* C8: for any two lists, sorted or not, the result of merge_two_lists is in
\* non-decreasing order and holds every element as often as left and right
\* together
C8_SortedPermutation ==
    (call = "merge_two_lists" /\ returned) =>
        /\ Len(merged) = Len(left) + Len(right)
        /\ \A i \in 1..(Len(merged) - 1) : merged[i] <= merged[i + 1]
        /\ \A x \in 0..MaxElem :
              CountOf(merged, x) = CountOf(left, x) + CountOf(right, x)

\* two unsorted inputs
C8_Witness ==
    /\ call = "merge_two_lists" /\ returned
    /\ Len(left) >= 2 /\ left[1] > left[2]
    /\ Len(right) >= 2 /\ right[1] > right[2]
    /\ merged = <<left[2], right[2], left[1], right[1]>>

\* --------------------------------------- properties: extract_contained

\* the number of records of kind k among the first n items of the stream
ReadOfKind(k, n) ==
    LET special_read == bam.special_at \in 1..n IN
    IF k = "special"
    THEN IF special_read /\ ~bam.special.is_err THEN 1 ELSE 0
    ELSE n - (IF special_read THEN 1 ELSE 0)

\* C5: a par_iter starts exactly when the buffer reaches 10,000 records, after
\* which buffer and counter are reset, and once more at the end of the stream
\* for the records left, so the buffer never holds more than 10,000 records;
\* over 10,001 records there are two par_iter, of 10,000 records and of 1
C5_Chunking ==
    /\ cur_count = VecLen(cur_vec)
    /\ VecLen(cur_vec) <= 10000
    /\ pc = "for" => cur_count < 10000 /\ cur_count = bam_pos % 10000
    /\ pc = "par_iter" => VecLen(cur_vec) = 10000
    /\ pc \in {"for", "par_iter", "par_iter_last", "done"} =>
         LET full == bam_pos \div 10000
             last == pc \in {"par_iter_last", "done"}
         IN  /\ Len(flushes) = full + (IF last THEN 1 ELSE 0)
             /\ \A i \in 1..full : flushes[i] = 10000
             /\ last => flushes[full + 1] = bam.len % 10000
    /\ (pc = "done" /\ bam.len = 10001) => flushes = <<10000, 1>>

C5_Witness ==
    /\ pc = "done"
    /\ bam.len = 10001
    /\ flushes = <<10000, 1>>
    /\ cur_count = 1

\* whether a group of the record's MM text needs more occurrences of its base
\* than the forward sequence holds
NeedsMoreBases(rec) ==
    /\ rec.mm.is_string
    /\ \E g \in 1..Len(CapturesIter(rec.mm.text, 1)) :
          LET d == GroupDists(rec.mm.text, g)
              b == CapturesIter(rec.mm.text, 1)[g].g3
          IN  SumTo(d, Len(d)) + Len(d)
                > Cardinality(Occurrences(ForwardBases(rec), b))

\* C6: when a record of the stream carries a group whose distances need more
\* occurrences of the base than its sequence holds, decoding that record
\* aborts, extract_contained never returns, and after the abort no further
\* par_iter starts and no further record is read
C6_FaultIsFatal ==
    /\ [](pc = "done" =>
            \A k \in Kinds : ReadOfKind(k, bam.len) > 0 => ~NeedsMoreBases(KindRecord(k)))
    /\ []((~task_panicked /\ pc # "idle") =>
            \A k \in Kinds : runs[k] > 0 => ~NeedsMoreBases(KindRecord(k)))
    /\ [][task_panicked =>
            /\ flushes' = flushes
            /\ bam_pos' = bam_pos
            /\ pc' \notin {"for", "done"}
            /\ task_panicked']_vars

\* the fault is in the first chunk of a stream of two: the run has unwound and
\* the second chunk was never read
C6_Witness ==
    /\ pc = "panicked"
    /\ task_panicked
    /\ bam.len = bin_size + 1
    /\ bam.special_at = bin_size
    /\ NeedsMoreBases(bam.special.record)
    /\ runs["special"] = 1
    /\ bam_pos = bin_size
    /\ Len(flushes) = 1

\* C9: in a run that returns, extract_from_record has run exactly once for
\* every record read, no record being skipped or run again by a later
\* par_iter; over an empty stream no pipeline runs, nothing is collected and
\* liftover_exact is never called
C9_ExactlyOnce ==
    /\ \A k \in Kinds : runs[k] + running[k] + pending[k] <= ReadOfKind(k, bam_pos)
    /\ pc = "done" =>
         /\ \A k \in Kinds : runs[k] = ReadOfKind(k, bam.len)
         /\ n_results = bam.len
         /\ liftover_calls =
              runs["fill"] * BaseModsNew(FillRecord).lifted
              + runs["special"] * BaseModsNew(bam.special.record).lifted
    /\ (pc # "idle" /\ bam.len = 0) =>
         /\ runs = EmptyVec
         /\ n_results = 0
         /\ liftover_calls = 0

\* two chunks, the record of the second one unlike the others
C9_Witness ==
    /\ pc = "done"
    /\ bam.len = bin_size + 1
    /\ bam.special_at = bin_size + 1
    /\ runs["fill"] = bin_size
    /\ runs["special"] = 1
    /\ n_results = bin_size + 1
    /\ liftover_calls = bin_size + 2

\* C10: whenever a record is read into the buffer or a par_iter starts, no
\* record of an earlier par_iter is left untaken or still running and every
\* record of the chunks before has been through extract_from_record; while a
\* par_iter runs, the records outstanding are those of its own chunk
C10_ChunkBarrier ==
    /\ []((pc \in {"par_iter", "par_iter_last"} /\ ~task_panicked) =>
            VecLen(runs) + VecLen(running) + VecLen(pending) = bam_pos)
    /\ [][(bam_pos' # bam_pos \/ flushes' # flushes) =>
            /\ VecLen(pending) = 0
            /\ VecLen(running) = 0
            /\ VecLen(runs) = bam_pos - cur_count]_vars

\* the first chunk is through and the second is about to be read
C10_Witness ==
    /\ pc = "for"
    /\ bam.len = bin_size + 1
    /\ bam_pos = bin_size
    /\ cur_count = 0
    /\ VecLen(runs) = bin_size

====
